---- MODULE Spec2Model ----
(***************************************************************************)
(* Model of the currency swap form (src/src/CurrencySwapForm.tsx).         *)
(*                                                                         *)
(* Representation                                                          *)
(*  - a JavaScript string that is computed on (amountToSend,               *)
(*    amountToReceive) is a sequence of one-character strings;             *)
(*    message strings, which are only stored and compared, are TLA+        *)
(*    strings;                                                             *)
(*    a character that a TLA+ string cannot hold is written as its code    *)
(*    point ("U+202F");                                                    *)
(*  - a JavaScript number is an IEEE-754 binary64 [nan, inf, neg, m, e]    *)
(*    whose mantissa m is a sequence of limbs in base 2^15 (the values     *)
(*    exceed 2^31); a price is a natural number below 2^16;                *)
(*    exchangeRate is the reduced fraction [num, den] of two prices;       *)
(*  - a CryptoCurrency object {code, name, priceInUSD} is represented by   *)
(*    its code (name = code and priceInUSD = the price map's entry, both   *)
(*    fixed by the code when the object is built); null is NULL.           *)
(* The component is rendered by React 18 or later: the updates a handler   *)
(* or an awaited continuation makes are applied together by one render.    *)
(***************************************************************************)
EXTENDS Integers, Sequences, FiniteSets, TLC

NULL == "null"

(***************************************************************************)
(* Characters and strings.  (<<>> \o f makes the function f a sequence     *)
(* that is stored, not recomputed at each use.)                            *)
(***************************************************************************)
DigitChars == <<"0", "1", "2", "3", "4", "5", "6", "7", "8", "9">>

IsDigit(c) == \E i \in 1..10 : DigitChars[i] = c

DigitVal(c) == (CHOOSE i \in 1..10 : DigitChars[i] = c) - 1

\* y, once x has been computed: an operator's argument is computed when it
\* is first used, and an argument that is handed on unused is computed
\* where the last of the chain uses it, inside all the others.
Then(x, y) == IF x = x THEN y ELSE y

Zeros(n) == <<>> \o [i \in 1..n |-> 0]

\* Index of the first position >= i of s that holds no digit (Len(s)+1 if none).
RunEnd(s, i) ==
  CHOOSE j \in i..(Len(s) + 1) :
    /\ j = Len(s) + 1 \/ ~IsDigit(s[j])
    /\ \A k \in i..(j - 1) : IsDigit(s[k])

\* The characters parseFloat trims from the start of its argument: the white
\* space and the line terminators of the language.
WhiteSpace ==
  {" ", "\t", "\n", "\r", "\f", "U+000B", "U+00A0", "U+FEFF", "U+1680", "U+2000",
   "U+2001", "U+2002", "U+2003", "U+2004", "U+2005", "U+2006", "U+2007", "U+2008",
   "U+2009", "U+200A", "U+2028", "U+2029", "U+202F", "U+205F", "U+3000"}

\* Index of the first position >= i of s that holds no white space.
SkipBlanks(s, i) ==
  CHOOSE j \in i..(Len(s) + 1) :
    /\ j = Len(s) + 1 \/ s[j] \notin WhiteSpace
    /\ \A k \in i..(j - 1) : s[k] \in WhiteSpace

\* The characters of s from i on begin with w.
StartsWith(s, i, w) == i + Len(w) - 1 <= Len(s) /\ SubSeq(s, i, i + Len(w) - 1) = w

\* The digit values of s[i..j-1].
DigitsOf(s, i, j) == <<>> \o [k \in 1..(j - i) |-> DigitVal(s[i + k - 1])]

\* The small natural number a sequence of decimal digits denotes.
RECURSIVE ToInt(_)
ToInt(ds) == IF ds = <<>> THEN 0 ELSE 10 * ToInt(SubSeq(ds, 1, Len(ds) - 1)) + ds[Len(ds)]

(***************************************************************************)
(* Natural numbers beyond 2^31: sequences of limbs in base 2^15, most      *)
(* significant first, without leading zeros (<<>> is 0).  A "small"        *)
(* number is a natural below 2^16, so that limb * small + small and        *)
(* small * 2^15 + limb stay below 2^31.                                    *)
(***************************************************************************)
Base == 2^15

\* A limb sequence without its leading zeros.
Strip(ds) ==
  LET z == CHOOSE j \in 0..Len(ds) :
             /\ j = Len(ds) \/ ds[j + 1] # 0
             /\ \A i \in 1..j : ds[i] = 0
  IN  SubSeq(ds, z + 1, Len(ds))

\* The limbs of a natural below 2^31.
RECURSIVE Limbs(_)
Limbs(n) == IF n = 0 THEN <<>> ELSE Append(Limbs(n \div Base), n % Base)

\* a < b
BigLess(a, b) ==
  IF Len(a) # Len(b) THEN Len(a) < Len(b)
  ELSE \E i \in 1..Len(a) : a[i] < b[i] /\ \A j \in 1..(i - 1) : a[j] = b[j]

BigLeq(a, b) == ~BigLess(b, a)

IsOdd(ds) == ds # <<>> /\ ds[Len(ds)] % 2 = 1

\* The two halves of a sequence of two limbs or more.
HighHalf(ds) == SubSeq(ds, 1, Len(ds) \div 2)

LowHalf(ds) == SubSeq(ds, Len(ds) \div 2 + 1, Len(ds))

\* Limbs in front of a result [digits, carry] of the limbs below them.
OnTop(high, low) == [digits |-> high.digits \o low.digits, carry |-> high.carry]

\* ds * k + carry for small k and carry, as the last Len(ds) limbs and the
\* carry beyond them: the low half first, its carry into the high half.
RECURSIVE MulLimbs(_, _, _)
MulHigh(ds, k, low) == Then(low, OnTop(MulLimbs(HighHalf(ds), k, low.carry), low))

MulLimbs(ds, k, carry) ==
  IF ds = <<>> THEN [digits |-> <<>>, carry |-> carry]
  ELSE IF Len(ds) = 1
  THEN [digits |-> <<(ds[1] * k + carry) % Base>>, carry |-> (ds[1] * k + carry) \div Base]
  ELSE MulHigh(ds, k, MulLimbs(LowHalf(ds), k, carry))

\* The limbs of a result [digits, carry].
WithCarry(r) == Limbs(r.carry) \o r.digits

\* ds * k + carry for small k and carry.
MulSmallC(ds, k, carry) == WithCarry(MulLimbs(ds, k, carry))

MulSmall(ds, k) == Strip(MulSmallC(ds, k, 0))

\* a + b + carry for a and b of one length, as [digits, carry].
RECURSIVE AddLimbs(_, _, _)
AddHigh(a, b, low) == Then(low, OnTop(AddLimbs(HighHalf(a), HighHalf(b), low.carry), low))

AddLimbs(a, b, carry) ==
  IF a = <<>> THEN [digits |-> <<>>, carry |-> carry]
  ELSE IF Len(a) = 1
  THEN [digits |-> <<(a[1] + b[1] + carry) % Base>>, carry |-> (a[1] + b[1] + carry) \div Base]
  ELSE AddHigh(a, b, AddLimbs(LowHalf(a), LowHalf(b), carry))

\* ds with zero limbs in front, to n limbs.
Widen(ds, n) == Zeros(n - Len(ds)) \o ds

\* a + b + carry
BigAddC(a, b, carry) ==
  WithCarry(AddLimbs(Widen(a, IF Len(a) >= Len(b) THEN Len(a) ELSE Len(b)),
                     Widen(b, IF Len(a) >= Len(b) THEN Len(a) ELSE Len(b)), carry))

BigAdd(a, b) == Strip(BigAddC(a, b, 0))

\* a * b
RECURSIVE BigMul(_, _)
BigMul(a, b) ==
  IF a = <<>> \/ b = <<>> THEN <<>>
  ELSE BigAdd(Strip(BigMul(a, SubSeq(b, 1, Len(b) - 1)) \o <<0>>), MulSmall(a, b[Len(b)]))

\* Limbs behind a result [digits, rem] of the limbs above them.
Behind(high, low) == [digits |-> high.digits \o low.digits, rem |-> low.rem]

\* (rem * Base^Len(ds) + ds) divided by a small k > 0, as the Len(ds) limbs
\* of the quotient and the remainder: the high half first, its remainder
\* into the low half.
RECURSIVE DivLimbs(_, _, _)
DivLow(ds, k, high) == Then(high, Behind(high, DivLimbs(LowHalf(ds), k, high.rem)))

DivLimbs(ds, k, rem) ==
  IF ds = <<>> THEN [digits |-> <<>>, rem |-> rem]
  ELSE IF Len(ds) = 1
  THEN [digits |-> <<(rem * Base + ds[1]) \div k>>, rem |-> (rem * Base + ds[1]) % k]
  ELSE DivLow(ds, k, DivLimbs(HighHalf(ds), k, rem))

\* The limbs of floor((rem * Base^Len(ds) + ds) / k) for a small k > 0.
DivSmallR(ds, k, rem) == DivLimbs(ds, k, rem).digits

DivSmall(ds, k) == Strip(DivSmallR(ds, k, 0))

\* (rem * Base^Len(ds) + ds) % k
ModSmallR(ds, k, rem) == DivLimbs(ds, k, rem).rem

ModSmall(ds, k) == ModSmallR(ds, k, 0)

\* ds * 2^k
Shl(ds, k) == Strip(MulSmall(ds, 2^(k % 15)) \o Zeros(k \div 15))

\* floor(ds / 2^k)
Shr(ds, k) ==
  IF Len(ds) <= k \div 15 THEN <<>>
  ELSE DivSmall(SubSeq(ds, 1, Len(ds) - (k \div 15)), 2^(k % 15))

\* The number of binary digits of ds.
BitLength(ds) ==
  IF ds = <<>> THEN 0
  ELSE 15 * (Len(ds) - 1) + (CHOOSE j \in 1..15 : 2^(j - 1) <= ds[1] /\ ds[1] < 2^j)

\* The index of the last limb of ds # 0 that is not 0.
LastLimb(ds) == CHOOSE i \in 1..Len(ds) : ds[i] # 0 /\ \A j \in (i + 1)..Len(ds) : ds[j] = 0

\* The number of trailing zero binary digits of a limb d # 0.
LimbZeros(d) == CHOOSE j \in 0..14 : d % 2^j = 0 /\ d % 2^(j + 1) # 0

\* The number of trailing zero binary digits of ds # 0.
TrailingZeros(ds) == 15 * (Len(ds) - LastLimb(ds)) + LimbZeros(ds[LastLimb(ds)])

\* n * 10^k, four decimal digits at a time, the first half of them first.
RECURSIVE MulPow10(_, _)
MulPow10(n, k) ==
  Then(n, IF k <= 4 THEN MulSmall(n, 10^k)
          ELSE MulPow10(MulPow10(n, 4 * ((k + 3) \div 8)), k - 4 * ((k + 3) \div 8)))

\* high * 10^k + low
JoinDecimal(high, low, k) == Then(high, Then(low, BigAdd(MulPow10(high, k), low)))

\* The limbs of the natural number the decimal digits ds write: the number
\* of the first digits, times the power of ten of the last, plus theirs.
RECURSIVE FromDecimal(_)
FromDecimal(ds) ==
  IF Len(ds) <= 4 THEN Limbs(ToInt(ds))
  ELSE JoinDecimal(FromDecimal(SubSeq(ds, 1, Len(ds) \div 2)),
                   FromDecimal(SubSeq(ds, Len(ds) \div 2 + 1, Len(ds))),
                   Len(ds) - Len(ds) \div 2)

\* The four decimal digits of r < 10000.
Digits4(r) == <<r \div 1000, (r \div 100) % 10, (r \div 10) % 10, r % 10>>

\* The decimal digits of n, four at a time; leading zeros are kept.
RECURSIVE ToDecimal(_)
ToDecimal(n) ==
  IF n = <<>> THEN <<>>
  ELSE ToDecimal(DivSmall(n, 10000)) \o Digits4(ModSmall(n, 10000))

\* The result of a division d = [digits, rem], and whether it or an earlier
\* one left a remainder.
Quotient(d, inexact) == [quotient |-> Strip(d.digits), inexact |-> inexact \/ d.rem # 0]

\* floor(n / 10^k) and whether the division left a remainder, four decimal
\* digits at a time, the first half of them first.
RECURSIVE DivPow10(_, _, _)
DivPow10Rest(q, k) == Then(q, DivPow10(q.quotient, k, q.inexact))

DivPow10(n, k, inexact) ==
  Then(n, IF k <= 4 THEN Quotient(DivLimbs(n, 10^k, 0), inexact)
          ELSE DivPow10Rest(DivPow10(n, 4 * ((k + 3) \div 8), inexact),
                            k - 4 * ((k + 3) \div 8)))

RECURSIVE GCD(_, _)
GCD(a, b) == IF b = 0 THEN a ELSE GCD(b, a % b)

(***************************************************************************)
(* IEEE-754 binary64 numbers: [nan, inf, neg, m, e] is NaN, or             *)
(* (-1)^neg * Infinity, or (-1)^neg * m * 2^e with m below 2^53 and odd,   *)
(* or zero (so that equal numbers are equal records; -0 is the zero with   *)
(* neg).  The finite numbers are the multiples of 2^-1074 below 2^1024     *)
(* with at most 53 binary digits.                                          *)
(***************************************************************************)
NaN == [nan |-> TRUE, inf |-> FALSE, neg |-> FALSE, m |-> <<>>, e |-> 0]

Infinity == [nan |-> FALSE, inf |-> TRUE, neg |-> FALSE, m |-> <<>>, e |-> 0]

ZERO == [nan |-> FALSE, inf |-> FALSE, neg |-> FALSE, m |-> <<>>, e |-> 0]

IsZero(x) == ~x.nan /\ ~x.inf /\ x.m = <<>>

\* The exponent of the smallest positive number, 2^-1074.
MinExponent == -1074

\* A magnitude of 2^1024 or more is Infinity.
MaxBits == 1024

Max(a, b) == IF a >= b THEN a ELSE b

\* m * 2^e with m made odd.
Canon(m, e) ==
  IF m = <<>> THEN ZERO
  ELSE LET z == TrailingZeros(m)
       IN  [nan |-> FALSE, inf |-> FALSE, neg |-> FALSE, m |-> Shr(m, z), e |-> e + z]

\* x, or Infinity when x is beyond the largest finite number.
Finite(x) == IF x.m # <<>> /\ BitLength(x.m) + x.e > MaxBits THEN Infinity ELSE x

\* m * 2^e rounded to m or m + 1: half is the binary digit below m's last,
\* rest tells whether anything lies below that digit.  Ties go to even.
Nearest(m, half, rest, e) ==
  Canon(IF half /\ (rest \/ IsOdd(m)) THEN BigAdd(m, <<1>>) ELSE m, e)

\* n * 2^e (and more below n's last digit when sticky) with the last drop
\* binary digits of n rounded away.
RoundAt(n, e, sticky, drop) ==
  IF drop <= 0 THEN Finite(Canon(n, e))
  ELSE Finite(Nearest(Shr(n, drop), IsOdd(Shr(n, drop - 1)),
                      sticky \/ TrailingZeros(n) < drop - 1, e + drop))

\* The binary64 nearest to a real x >= 0, given n = floor(x / 2^e) and
\* sticky = (x is not n * 2^e); when sticky, n >= 2^53.  The digits beyond
\* the 53rd and those below 2^-1074 are rounded away.
Round53(n, e, sticky) ==
  IF n = <<>> THEN ZERO
  ELSE RoundAt(n, e, sticky, Max(BitLength(n) - 53, MinExponent - e))

\* Round53 of the result q of DivPow10.
RoundQuotient(q, e) == Round53(q.quotient, e, q.inexact)

\* The binary64 nearest to n / 10^scale for an integer scale; a quotient is
\* taken with 54 + 4 * scale binary digits after the point.
\* DecimalToDouble is that for the number n the decimal digits write (they
\* are without leading zeros): a number of 10^309 or more is Infinity, one
\* below 10^-324 is 0.
ScaledToDouble(n, scale) ==
  Then(n, IF scale <= 0 THEN Round53(MulPow10(n, -scale), 0, FALSE)
          ELSE RoundQuotient(DivPow10(Shl(n, 54 + 4 * scale), scale, FALSE),
                             -(54 + 4 * scale)))

DecimalToDouble(digits, scale) ==
  IF digits = <<>> THEN ZERO
  ELSE IF Len(digits) - scale > 309 THEN Infinity
  ELSE IF Len(digits) - scale < -323 THEN ZERO
  ELSE ScaledToDouble(FromDecimal(digits), scale)

\* The number literal n, a natural below 2^31.
Number(n) == Round53(Limbs(n), 0, FALSE)

\* The binary64 nearest to x / (b * 2^70).
DivideShifted(x, b) == Round53(DivSmall(x, b), -70, ModSmall(x, b) # 0)

\* a / b for small naturals a and b > 0, as binary64.
Divide(a, b) == DivideShifted(Shl(Limbs(a), 70), b)

\* x * y, as binary64.
Multiply(x, y) ==
  IF x.nan \/ y.nan THEN NaN
  ELSE IF x.inf \/ y.inf
  THEN IF IsZero(x) \/ IsZero(y) THEN NaN ELSE [Infinity EXCEPT !.neg = (x.neg # y.neg)]
  ELSE [Round53(BigMul(x.m, y.m), x.e + y.e, FALSE) EXCEPT !.neg = (x.neg # y.neg)]

\* |x| < |y| for numbers with the same number of binary digits before the
\* point.
AlignedLess(x, y) ==
  IF x.e >= y.e THEN BigLess(Shl(x.m, x.e - y.e), y.m)
  ELSE BigLess(x.m, Shl(y.m, y.e - x.e))

\* |x| < |y|
MagLess(x, y) ==
  IF x.inf THEN FALSE
  ELSE IF y.inf THEN TRUE
  ELSE IF y.m = <<>> THEN FALSE
  ELSE IF x.m = <<>> THEN TRUE
  ELSE IF BitLength(x.m) + x.e # BitLength(y.m) + y.e
  THEN BitLength(x.m) + x.e < BitLength(y.m) + y.e
  ELSE AlignedLess(x, y)

\* x < y (false when either is NaN, as in JavaScript; -0 is not below 0).
Less(x, y) ==
  /\ ~x.nan
  /\ ~y.nan
  /\ IF x.neg
     THEN IF y.neg THEN MagLess(y, x) ELSE ~(IsZero(x) /\ IsZero(y))
     ELSE IF y.neg THEN FALSE ELSE MagLess(x, y)

\* x <= y (false when either is NaN).
Leq(x, y) == ~x.nan /\ ~y.nan /\ ~Less(y, x)

IsNaN(x) == x.nan

\* const MAX_AMOUNT = 1_000_000_000_000 (5^12 * 2^12)
MAX_AMOUNT == Canon(Limbs(5^12), 12)

\* parseFloat trims the white space at the start and reads the longest
\* prefix that writes a decimal number: a sign, then "Infinity" or digits,
\* "." digits and an exponent; NaN when there is none.  The number the
\* digits intDs "." fracDs and the exponent exp write:
DecimalValue(neg, intDs, fracDs, exp) ==
  IF Len(intDs) + Len(fracDs) = 0 THEN NaN
  ELSE [DecimalToDouble(Strip(intDs \o fracDs), Len(fracDs) - exp) EXCEPT !.neg = neg]

\* The largest exponent that is told apart: beyond it the number is 0 or
\* Infinity whatever its digits (of which there are fewer than that).
MaxExponent == 99999

\* The number the digits ds of an exponent write, MaxExponent at most.
ExponentValue(ds) == IF Len(ds) > 5 THEN MaxExponent ELSE ToInt(ds)

\* The exponent written at s[i..]: "e" or "E", a sign, digits (0 when there
\* is none, or when no digit follows).
ExponentAt(s, i) ==
  LET j == IF i + 1 <= Len(s) /\ s[i + 1] \in {"+", "-"} THEN i + 2 ELSE i + 1
  IN  IF i <= Len(s) /\ s[i] \in {"e", "E"} /\ RunEnd(s, j) > j
      THEN (IF s[i + 1] = "-" THEN -1 ELSE 1)
             * ExponentValue(Strip(DigitsOf(s, j, RunEnd(s, j))))
      ELSE 0

\* The fraction's digits end before i3.
ParseExponent(s, neg, intDs, fracDs, i3) ==
  DecimalValue(neg, intDs, fracDs, ExponentAt(s, i3))

\* The integer digits are s[i1..i2-1].
ParseFraction(s, neg, i1, i2) ==
  IF i2 <= Len(s) /\ s[i2] = "."
  THEN ParseExponent(s, neg, DigitsOf(s, i1, i2),
                     DigitsOf(s, i2 + 1, RunEnd(s, i2 + 1)), RunEnd(s, i2 + 1))
  ELSE ParseExponent(s, neg, DigitsOf(s, i1, i2), <<>>, i2)

InfinityWord == <<"I", "n", "f", "i", "n", "i", "t", "y">>

\* The sign ends before i1.
ParseMagnitude(s, neg, i1) ==
  IF StartsWith(s, i1, InfinityWord) THEN [Infinity EXCEPT !.neg = neg]
  ELSE ParseFraction(s, neg, i1, RunEnd(s, i1))

\* The white space ends before i0.
ParseSign(s, i0) ==
  IF i0 <= Len(s) /\ s[i0] \in {"+", "-"}
  THEN ParseMagnitude(s, s[i0] = "-", i0 + 1)
  ELSE ParseMagnitude(s, FALSE, i0)

ParseFloat(s) == ParseSign(s, SkipBlanks(s, 1))

\* /^\d*\.?\d*$/.test(value)
RegexTest(value) ==
  LET i == RunEnd(value, 1)
      j == IF i <= Len(value) /\ value[i] = "." THEN i + 1 ELSE i
  IN  RunEnd(value, j) = Len(value) + 1

Chars(ds) == <<>> \o [i \in 1..Len(ds) |-> DigitChars[ds[i] + 1]]

\* The integer nearest to x * 10^f, the larger one on a tie: for x = m / 2^s
\* that is floor((m * 10^f + 2^(s-1)) / 2^s).
ScaledInteger(x, f) ==
  IF x.e >= 0 THEN Shl(MulPow10(x.m, f), x.e)
  ELSE Shr(BigAdd(MulPow10(x.m, f), Shl(<<1>>, -x.e - 1)), -x.e)

\* digits with zeros in front, to n digits at least.
PadZeros(digits, n) ==
  IF Len(digits) < n THEN Zeros(n - Len(digits)) \o digits ELSE digits

\* The digits written with a point before the last f (none when f is 0).
WithPoint(digits, f) ==
  IF f = 0 THEN Chars(digits)
  ELSE Chars(SubSeq(digits, 1, Len(digits) - f)) \o <<".">>
         \o Chars(SubSeq(digits, Len(digits) - f + 1, Len(digits)))

\* "-" for a number below 0.
SignOf(x) == IF Less(x, ZERO) THEN <<"-">> ELSE <<>>

\* Number.prototype.toFixed for |x| < 10^21, NaN and the infinities.
ToFixed(x, f) ==
  IF x.nan THEN <<"N", "a", "N">>
  ELSE IF x.inf THEN SignOf(x) \o InfinityWord
  ELSE SignOf(x) \o WithPoint(PadZeros(Strip(ToDecimal(ScaledInteger(x, f))), f + 1), f)

(***************************************************************************)
(* The rate and the amount to receive.  exchangeRate is kept as the        *)
(* reduced fraction [num, den] and denotes the binary64 nearest to         *)
(* num / den: two fractions of prices are equal exactly when their         *)
(* binary64 quotients are.                                                 *)
(***************************************************************************)
ZeroRate == [num |-> 0, den |-> 1]

\* toPrice / fromPrice
Ratio(toPrice, fromPrice) ==
  LET g == GCD(toPrice, fromPrice)
  IN  [num |-> toPrice \div g, den |-> fromPrice \div g]

RateValue(rate) == Divide(rate.num, rate.den)

FractionDigits == 8

ZeroAmount == <<"0", ".", "0", "0">>

\* cryptoPricesInUSD.get(code) is truthy
HasPrice(prices, code) == code \in DOMAIN prices /\ prices[code] # 0

\* amount > 0 && amount <= MAX_AMOUNT
WithinLimit(amount) == Less(ZERO, amount) /\ Leq(amount, MAX_AMOUNT)

\* Calculate without the test that the two codes differ.
CalculateSameCode(amount, from, to, prices) ==
  IF from # NULL /\ to # NULL /\ WithinLimit(amount)
  THEN IF HasPrice(prices, from) /\ HasPrice(prices, to)
       THEN [exchangeRate |-> Ratio(prices[to], prices[from]),
             amountToReceive |->
               ToFixed(Multiply(amount, RateValue(Ratio(prices[to], prices[from]))),
                       FractionDigits)]
       ELSE [exchangeRate |-> ZeroRate, amountToReceive |-> ZeroAmount]
  ELSE [exchangeRate |-> ZeroRate, amountToReceive |-> ZeroAmount]

\* The body of calculateAmountToReceive, for amount = parseFloat(amountToSend):
\* the values it sets.
Calculate(amount, from, to, prices) ==
  IF from # NULL /\ to # NULL /\ WithinLimit(amount) /\ from # to
  THEN IF HasPrice(prices, from) /\ HasPrice(prices, to)
       THEN [exchangeRate |-> Ratio(prices[to], prices[from]),
             amountToReceive |->
               ToFixed(Multiply(amount, RateValue(Ratio(prices[to], prices[from]))),
                       FractionDigits)]
       ELSE [exchangeRate |-> ZeroRate, amountToReceive |-> ZeroAmount]
  ELSE [exchangeRate |-> ZeroRate, amountToReceive |-> ZeroAmount]

CalculateAmountToReceive(amountToSend_, from, to, prices) ==
  Calculate(ParseFloat(amountToSend_), from, to, prices)

(***************************************************************************)
(* Validation.                                                             *)
(***************************************************************************)
MsgAmountRequired == "Amount is required."

MsgPositiveAmount == "Please enter a positive amount."

\* The runtime's default locale, in which toLocaleString() formats: the
\* locales differ in the separator and in the sizes of the groups of digits.
Locales == {"en-US", "de-DE", "fr-FR", "en-IN"}

\* `Amount cannot exceed ${MAX_AMOUNT.toLocaleString()}.`
MsgAmountCeiling(locale_) ==
  CASE locale_ = "en-US" -> "Amount cannot exceed 1,000,000,000,000."
    [] locale_ = "de-DE" -> "Amount cannot exceed 1.000.000.000.000."
    [] locale_ = "fr-FR" -> "Amount cannot exceed 1U+202F000U+202F000U+202F000U+202F000."
    [] locale_ = "en-IN" -> "Amount cannot exceed 10,00,00,00,00,000."

MsgFromRequired == "Please select a \"From\" currency."

MsgToRequired == "Please select a \"To\" currency."

MsgSameCurrency == "Currencies cannot be the same."

\* The message validateForm sets for the amount, amount = parseFloat(amountToSend).
AmountMessage(amountToSend_, amount, locale_) ==
  IF amountToSend_ = <<>> THEN MsgAmountRequired
  ELSE IF IsNaN(amount) \/ Leq(amount, ZERO) THEN MsgPositiveAmount
  ELSE IF Less(MAX_AMOUNT, amount) THEN MsgAmountCeiling(locale_)
  ELSE ""

\* The message validateForm leaves for the From currency.
FromMessage(from, to) ==
  IF from # NULL /\ to # NULL /\ from = to THEN MsgSameCurrency
  ELSE IF from = NULL THEN MsgFromRequired
  ELSE ""

\* The message validateForm leaves in toCurrencyError.current.
ToMessage(from, to) ==
  IF from # NULL /\ to # NULL /\ from = to THEN MsgSameCurrency
  ELSE IF to = NULL THEN MsgToRequired
  ELSE ""

\* validateForm's return value and messages: isValid is set to false by
\* exactly the branches that set a message.
Validation(amountMessage, fromMessage, toMessage) ==
  [isValid |-> amountMessage = "" /\ fromMessage = "" /\ toMessage = "",
   amountError |-> amountMessage,
   fromCurrencyError |-> fromMessage,
   toCurrencyError |-> toMessage]

ValidateForm(amountToSend_, from, to, locale_) ==
  Validation(AmountMessage(amountToSend_, ParseFloat(amountToSend_), locale_),
             FromMessage(from, to), ToMessage(from, to))

(***************************************************************************)
(* The component's state.                                                  *)
(***************************************************************************)
VARIABLES
  amountToSend,          \* useState("100")
  fromCurrency,          \* useState(null)
  toCurrency,            \* useState(null)
  amountToReceive,       \* useState("0.00")
  exchangeRate,          \* useState(0)
  isSwapping,            \* useState(false)
  allCryptoCurrencies,   \* useState([]): the codes, in the map's insertion order
  cryptoPricesInUSD,     \* useState(new Map())
  isLoading,             \* useState(true); the price request is in flight while it holds
  fetchError,            \* useState(null)
  amountError,           \* useState("")
  fromCurrencyError,     \* useState("")
  toCurrencyError,       \* useRef(""): .current
  toFieldHelperText,     \* toCurrencyError.current as the To Token field last read it
  submitDisabled,        \* the Swap button's disabled prop, as last rendered
  timers,                \* pending setTimeout callbacks of handleSwap
  settled,               \* the effects of the last render have run
  locale                 \* the runtime's default locale

vars ==
  <<amountToSend, fromCurrency, toCurrency, amountToReceive, exchangeRate, isSwapping,
    allCryptoCurrencies, cryptoPricesInUSD, isLoading, fetchError, amountError,
    fromCurrencyError, toCurrencyError, toFieldHelperText, submitDisabled, timers,
    settled, locale>>

\* The hooks' values, what the last render showed and the locale, as one
\* record.
Cur ==
  [amountToSend |-> amountToSend,
   fromCurrency |-> fromCurrency,
   toCurrency |-> toCurrency,
   amountToReceive |-> amountToReceive,
   exchangeRate |-> exchangeRate,
   isSwapping |-> isSwapping,
   allCryptoCurrencies |-> allCryptoCurrencies,
   cryptoPricesInUSD |-> cryptoPricesInUSD,
   isLoading |-> isLoading,
   fetchError |-> fetchError,
   amountError |-> amountError,
   fromCurrencyError |-> fromCurrencyError,
   toCurrencyError |-> toCurrencyError,
   toFieldHelperText |-> toFieldHelperText,
   submitDisabled |-> submitDisabled,
   locale |-> locale]

Store(st) ==
  /\ amountToSend' = st.amountToSend
  /\ fromCurrency' = st.fromCurrency
  /\ toCurrency' = st.toCurrency
  /\ amountToReceive' = st.amountToReceive
  /\ exchangeRate' = st.exchangeRate
  /\ isSwapping' = st.isSwapping
  /\ allCryptoCurrencies' = st.allCryptoCurrencies
  /\ cryptoPricesInUSD' = st.cryptoPricesInUSD
  /\ isLoading' = st.isLoading
  /\ fetchError' = st.fetchError
  /\ amountError' = st.amountError
  /\ fromCurrencyError' = st.fromCurrencyError
  /\ toCurrencyError' = st.toCurrencyError
  /\ toFieldHelperText' = st.toFieldHelperText
  /\ submitDisabled' = st.submitDisabled
  /\ locale' = st.locale

EmptyMap == [c \in {} |-> 0]

\* The useState and useRef initial values, in a runtime of the locale l.
InitialState(l) ==
  [amountToSend |-> <<"1", "0", "0">>,
   fromCurrency |-> NULL,
   toCurrency |-> NULL,
   amountToReceive |-> ZeroAmount,
   exchangeRate |-> ZeroRate,
   isSwapping |-> FALSE,
   allCryptoCurrencies |-> <<>>,
   cryptoPricesInUSD |-> EmptyMap,
   isLoading |-> TRUE,
   fetchError |-> NULL,
   amountError |-> "",
   fromCurrencyError |-> "",
   toCurrencyError |-> "",
   toFieldHelperText |-> "",
   submitDisabled |-> TRUE,
   locale |-> l]

\* The useState values: a change of one of them, and nothing else, re-renders.
HookState(st) ==
  <<st.amountToSend, st.fromCurrency, st.toCurrency, st.amountToReceive, st.exchangeRate,
    st.isSwapping, st.allCryptoCurrencies, st.cryptoPricesInUSD, st.isLoading,
    st.fetchError, st.amountError, st.fromCurrencyError>>

\* FormRendered without the fetchError guard.
RenderedDespiteError(st) == ~st.isLoading

\* The form is rendered: neither the loading nor the error screen is returned.
FormRendered(st) == ~st.isLoading /\ st.fetchError = NULL

View(st) ==
  IF st.isLoading THEN "Loading" ELSE IF st.fetchError # NULL THEN "Error" ELSE "Ready"

\* const isFormValid, as a render computes it.
IsFormValid(st) ==
  /\ st.fromCurrency # NULL
  /\ st.toCurrency # NULL
  /\ st.fromCurrency # st.toCurrency
  /\ WithinLimit(ParseFloat(st.amountToSend))
  /\ st.amountError = ""
  /\ st.fromCurrencyError = ""
  /\ st.toCurrencyError = ""

\* The button's disabled prop without isSwapping.
DisabledWhenInvalid(st) == ~IsFormValid(st)

\* disabled={!isFormValid || isSwapping}
SwapButtonDisabled(st) == ~IsFormValid(st) \/ st.isSwapping

\* One render of the component: what it shows of the ref and of isFormValid.
Render(st) ==
  IF FormRendered(st)
  THEN [st EXCEPT !.toFieldHelperText = st.toCurrencyError,
                  !.submitDisabled = SwapButtonDisabled(st)]
  ELSE [st EXCEPT !.toFieldHelperText = "", !.submitDisabled = TRUE]

\* st with the messages of the validation v.
SetMessages(st, v) ==
  [st EXCEPT !.amountError = v.amountError,
             !.fromCurrencyError = v.fromCurrencyError,
             !.toCurrencyError = v.toCurrencyError]

\* validateForm() called: the two states and the ref it sets.
ApplyValidate(st) ==
  SetMessages(st, ValidateForm(st.amountToSend, st.fromCurrency, st.toCurrency, st.locale))

\* st with the values c of calculateAmountToReceive.
SetCalculated(st, c) ==
  [st EXCEPT !.amountToReceive = c.amountToReceive, !.exchangeRate = c.exchangeRate]

\* useEffect(() => { if (!isLoading && !fetchError) calculateAmountToReceive(); })
CalcEffect(st) ==
  IF ~st.isLoading /\ st.fetchError = NULL
  THEN SetCalculated(st, CalculateAmountToReceive(st.amountToSend, st.fromCurrency,
                                                  st.toCurrency, st.cryptoPricesInUSD))
  ELSE st

\* useEffect(() => { validateForm(); })
ValidateEffect(st) == ApplyValidate(st)

\* CalcDeps without toCurrency.
CalcDepsWithoutTo(st) ==
  <<st.amountToSend, st.fromCurrency, st.cryptoPricesInUSD, st.isLoading, st.fetchError>>

\* What the identity of calculateAmountToReceive and the effect's other
\* dependencies depend on.
CalcDeps(st) ==
  <<st.amountToSend, st.fromCurrency, st.toCurrency, st.cryptoPricesInUSD, st.isLoading,
    st.fetchError>>

ValidateDeps(st) == <<st.amountToSend, st.fromCurrency, st.toCurrency>>

\* An effect runs after a render when its dependencies differ from those of
\* the render before (prev).
RunCalcEffect(st, prev) == IF CalcDeps(st) # CalcDeps(prev) THEN CalcEffect(st) ELSE st

RunValidateEffect(st, prev) ==
  IF ValidateDeps(st) # ValidateDeps(prev) THEN ValidateEffect(st) ELSE st

\* The effects of a render, in the order of their declaration.
RunEffects(st, prev) == RunValidateEffect(RunCalcEffect(st, prev), prev)

\* Rerender without the second render.
NoRerender(e, rendered) == e

\* After the effects of the render of rendered left e: a second render when
\* they changed a useState value (its dependencies are those of the first, so
\* that no effect runs again).
Rerender(e, rendered) == IF HookState(e) = HookState(rendered) THEN e ELSE Render(e)

\* What follows a handler that turned the state prev into next: no render when
\* no useState value changed; otherwise a render, its effects and the render
\* these may cause.
Commit(prev, next) ==
  IF HookState(next) = HookState(prev) THEN next
  ELSE Rerender(RunEffects(Render(next), prev), next)

\* The first render: every effect runs.
Mounted(l) ==
  Rerender(ValidateEffect(CalcEffect(Render(InitialState(l)))), InitialState(l))

(***************************************************************************)
(* The price feed.                                                         *)
(***************************************************************************)
MaxFeed == 2

Codes == {"BTC", "ETH"}

Prices == {0, 2500, 50000}

\* response.data: at most MaxFeed {currency, price} records.
Feeds == UNION {[1..n -> [currency : Codes, price : Prices]] : n \in 0..MaxFeed}

\* pricesMap after rawData.forEach(...): the keys in insertion order and the
\* prices; set() on a key the map holds keeps the key's place.
RECURSIVE PricesMap(_)
PricesMap(rawData) ==
  IF rawData = <<>> THEN [codes |-> <<>>, prices |-> EmptyMap]
  ELSE LET data == rawData[Len(rawData)]
           map == PricesMap(SubSeq(rawData, 1, Len(rawData) - 1))
       IN  IF data.price > 0
           THEN [codes |-> IF data.currency \in DOMAIN map.prices THEN map.codes
                           ELSE Append(map.codes, data.currency),
                 prices |-> [c \in DOMAIN map.prices \cup {data.currency} |->
                               IF c = data.currency THEN data.price ELSE map.prices[c]]]
           ELSE map

MsgFetchError == "Failed to load cryptocurrency prices. Please try again later."

(***************************************************************************)
(* The handlers.  Each is one step: the updates it makes, the render that  *)
(* follows and that render's effects.                                      *)
(***************************************************************************)
\* What the user can type into the Amount field.
AmountInputs ==
  {<<>>, <<"0">>, <<"2">>, <<".">>, <<"0", ".", "5">>, <<"-", "5">>,
   <<"1", "0", "0", "0", "0", "0", "0", "0", "0", "0", "0", "0", "0">>,
   <<"1", "0", "0", "0", "0", "0", "0", "0", "0", "0", "0", "0", "1">>}

\* The options of the two Autocompletes, and null (the field cleared).
Options == {allCryptoCurrencies[i] : i \in 1..Len(allCryptoCurrencies)} \cup {NULL}

\* fetchCryptoData, after the request resolved with rawData.
FetchSuccess(rawData) ==
  /\ isLoading
  /\ LET map == PricesMap(rawData)
         processed == map.codes
         next == [Cur EXCEPT
                    !.allCryptoCurrencies = processed,
                    !.cryptoPricesInUSD = map.prices,
                    !.fromCurrency = IF Len(processed) > 0 THEN processed[1] ELSE @,
                    !.toCurrency = IF Len(processed) > 1 THEN processed[2] ELSE @,
                    !.isLoading = FALSE]
     IN  \E st \in {Commit(Cur, next)} : Store(st)
  /\ UNCHANGED <<timers, settled>>

\* fetchCryptoData, after the request failed.
FetchFailure ==
  /\ isLoading
  /\ \E st \in {Commit(Cur, [Cur EXCEPT !.fetchError = MsgFetchError, !.isLoading = FALSE])} :
       Store(st)
  /\ UNCHANGED <<timers, settled>>

HandleAmountChange(value) ==
  /\ FormRendered(Cur)
  /\ LET next == IF RegexTest(value) \/ value = <<>>
                 THEN [Cur EXCEPT !.amountToSend = value]
                 ELSE Cur
     IN  \E st \in {Commit(Cur, next)} : Store(st)
  /\ UNCHANGED <<timers, settled>>

\* The clear button is rendered when amountToSend is not the empty string.
HandleClearAmount ==
  /\ FormRendered(Cur)
  /\ amountToSend # <<>>
  /\ \E st \in {Commit(Cur, [Cur EXCEPT !.amountToSend = <<"0">>, !.amountError = ""])} :
       Store(st)
  /\ UNCHANGED <<timers, settled>>

HandleFromCurrencyChange(newValue) ==
  /\ FormRendered(Cur)
  /\ \E st \in {Commit(Cur, [Cur EXCEPT !.fromCurrency = newValue])} : Store(st)
  /\ UNCHANGED <<timers, settled>>

HandleToCurrencyChange(newValue) ==
  /\ FormRendered(Cur)
  /\ \E st \in {Commit(Cur, [Cur EXCEPT !.toCurrency = newValue])} : Store(st)
  /\ UNCHANGED <<timers, settled>>

\* The exchange without temp: fromCurrency is overwritten before it is read.
SwapWithoutTemp(st) ==
  [st EXCEPT !.fromCurrency = st.toCurrency, !.toCurrency = st.toCurrency]

\* const temp = fromCurrency; setFromCurrency(toCurrency); setToCurrency(temp);
SwapCurrencies(st) ==
  LET temp == st.fromCurrency
  IN  [st EXCEPT !.fromCurrency = st.toCurrency, !.toCurrency = temp]

HandleSwapCurrencies ==
  /\ FormRendered(Cur)
  /\ \E st \in {Commit(Cur, SwapCurrencies(Cur))} : Store(st)
  /\ UNCHANGED <<timers, settled>>

\* The Swap button can be pressed when the last render left it enabled.
HandleSwap ==
  /\ FormRendered(Cur)
  /\ ~submitDisabled
  /\ \E v \in {ValidateForm(amountToSend, fromCurrency, toCurrency, locale)} :
       IF v.isValid
       THEN /\ \E st \in {Commit(Cur, [SetMessages(Cur, v) EXCEPT !.isSwapping = TRUE])} :
                 Store(st)
            /\ timers' = timers + 1
       ELSE /\ \E st \in {Commit(Cur, SetMessages(Cur, v))} : Store(st)
            /\ timers' = timers
  /\ UNCHANGED settled

\* The setTimeout callback: the toast, setIsSwapping(false).
TimerFires ==
  /\ timers > 0
  /\ \E st \in {Commit(Cur, [Cur EXCEPT !.isSwapping = FALSE])} : Store(st)
  /\ timers' = timers - 1
  /\ UNCHANGED settled

\* The To Token Autocomplete renders again on its own (focus, its popup, its
\* input text) and calls renderInput, which reads toCurrencyError.current.
ToFieldRerender ==
  /\ FormRendered(Cur)
  /\ toFieldHelperText' = toCurrencyError
  /\ UNCHANGED <<amountToSend, fromCurrency, toCurrency, amountToReceive, exchangeRate,
                 isSwapping, allCryptoCurrencies, cryptoPricesInUSD, isLoading,
                 fetchError, amountError, fromCurrencyError, toCurrencyError,
                 submitDisabled, timers, settled, locale>>

\* The state is st.
Holds(st) ==
  /\ amountToSend = st.amountToSend
  /\ fromCurrency = st.fromCurrency
  /\ toCurrency = st.toCurrency
  /\ amountToReceive = st.amountToReceive
  /\ exchangeRate = st.exchangeRate
  /\ isSwapping = st.isSwapping
  /\ allCryptoCurrencies = st.allCryptoCurrencies
  /\ cryptoPricesInUSD = st.cryptoPricesInUSD
  /\ isLoading = st.isLoading
  /\ fetchError = st.fetchError
  /\ amountError = st.amountError
  /\ fromCurrencyError = st.fromCurrencyError
  /\ toCurrencyError = st.toCurrencyError
  /\ toFieldHelperText = st.toFieldHelperText
  /\ submitDisabled = st.submitDisabled
  /\ locale = st.locale

Init ==
  /\ \E l \in Locales : Holds(Mounted(l))
  /\ timers = 0
  /\ settled = TRUE

Next ==
  \/ \E rawData \in Feeds : FetchSuccess(rawData)
  \/ FetchFailure
  \/ \E value \in AmountInputs : HandleAmountChange(value)
  \/ HandleClearAmount
  \/ \E newValue \in Options : HandleFromCurrencyChange(newValue)
  \/ \E newValue \in Options : HandleToCurrencyChange(newValue)
  \/ HandleSwapCurrencies
  \/ HandleSwap
  \/ TimerFires
  \/ ToFieldRerender

Spec == Init /\ [][Next]_vars

\* Spec, with the request settling (a step that ends isLoading is taken in
\* the end) and the pending setTimeout callback running (a step that takes a
\* timer off is taken in the end).
FairSpec ==
  /\ Spec
  /\ WF_isLoading(isLoading /\ isLoading' = FALSE)
  /\ WF_timers(timers > 0 /\ timers' = timers - 1)

(***************************************************************************)
(* calculateAmountToReceive on its own: the four values it reads are       *)
(* drawn, with the amountToReceive and exchangeRate an earlier run left,   *)
(* and the function is applied once.                                       *)
(***************************************************************************)
CalcAmounts ==
  {<<>>, <<"0">>, <<"2">>, <<"0", ".", "5">>, <<"a", "b", "c">>, <<"-", "5">>,
   <<"1", "e", "1", "3">>,
   <<"9", "9", "9", "9", "9", "9", "9", "9", "9", "9", "9", "9">>,
   <<"1", "0", "0", "0", "0", "0", "0", "0", "0", "0", "0", "0", "0">>,
   <<"1", "0", "0", "0", "0", "0", "0", "0", "0", "0", "0", "0", "1">>}

\* Price maps on some of the codes; a code can be without an entry.
CalcPriceMaps == UNION {[S -> Prices] : S \in SUBSET Codes}

\* What an earlier run can have left.
EarlierResults ==
  {[exchangeRate |-> ZeroRate, amountToReceive |-> ZeroAmount],
   [exchangeRate |-> [num |-> 20, den |-> 1],
    amountToReceive |-> <<"4", "0", ".", "0", "0", "0", "0", "0", "0", "0", "0">>]}

InitCalc ==
  /\ \E a \in CalcAmounts, from \in Codes \cup {NULL}, to \in Codes \cup {NULL},
        prices \in CalcPriceMaps, earlier \in EarlierResults, l \in Locales :
       Holds([InitialState(l) EXCEPT
                !.amountToSend = a,
                !.fromCurrency = from,
                !.toCurrency = to,
                !.cryptoPricesInUSD = prices,
                !.isLoading = FALSE,
                !.amountToReceive = earlier.amountToReceive,
                !.exchangeRate = earlier.exchangeRate])
  /\ timers = 0
  /\ settled = FALSE

CalculateStep ==
  /\ ~settled
  /\ \E st \in {SetCalculated(Cur, CalculateAmountToReceive(amountToSend, fromCurrency,
                                                             toCurrency, cryptoPricesInUSD))} :
       Store(st)
  /\ settled' = TRUE
  /\ UNCHANGED timers

NextCalc == CalculateStep

SpecCalc == InitCalc /\ [][NextCalc]_vars

(***************************************************************************)
(* The properties.                                                         *)
(***************************************************************************)
\* Both currencies are selected, differ and have a price.
CurrenciesPriced ==
  /\ fromCurrency # NULL
  /\ toCurrency # NULL
  /\ fromCurrency # toCurrency
  /\ HasPrice(cryptoPricesInUSD, fromCurrency)
  /\ HasPrice(cryptoPricesInUSD, toCurrency)

\* amountToSend parses to a number in (0, 10^12].
AmountInRange == WithinLimit(ParseFloat(amountToSend))

\* C1, as amended: in every settled Ready state exchangeRate is
\* price(to) / price(from) when both currencies are selected, differ and are
\* priced and the amount parses to a number in (0, 10^12]; in every other
\* case exchangeRate is 0 and amountToReceive is "0.00".
C1_RateInvariant ==
  FormRendered(Cur) =>
    IF CurrenciesPriced /\ AmountInRange
    THEN exchangeRate = Ratio(cryptoPricesInUSD[toCurrency], cryptoPricesInUSD[fromCurrency])
    ELSE exchangeRate = ZeroRate /\ amountToReceive = ZeroAmount

\* C1 as stated: the rate is price(to) / price(from) whenever the currencies
\* are selected, distinct and priced, whatever the amount.
C1_RateWhateverAmount ==
  FormRendered(Cur) =>
    IF CurrenciesPriced
    THEN exchangeRate = Ratio(cryptoPricesInUSD[toCurrency], cryptoPricesInUSD[fromCurrency])
    ELSE exchangeRate = ZeroRate /\ amountToReceive = ZeroAmount

\* C1: a Ready state with priced, distinct currencies and the amount "0",
\* where the rate is 0.
C1_Witness ==
  /\ FormRendered(Cur)
  /\ CurrenciesPriced
  /\ amountToSend = <<"0">>
  /\ exchangeRate = ZeroRate
  /\ amountToReceive = ZeroAmount

\* A precondition of calculateAmountToReceive fails.
PreconditionFails ==
  \/ ~Less(ZERO, ParseFloat(amountToSend))
  \/ Less(MAX_AMOUNT, ParseFloat(amountToSend))
  \/ fromCurrency = NULL
  \/ toCurrency = NULL
  \/ fromCurrency = toCurrency
  \/ ~HasPrice(cryptoPricesInUSD, fromCurrency)
  \/ ~HasPrice(cryptoPricesInUSD, toCurrency)

\* C2: once calculateAmountToReceive has run, amountToReceive is "0.00" and
\* exchangeRate is 0 whenever a precondition fails (the amount does not parse
\* to a number > 0 or is above 10^12, a currency is unselected, the codes are
\* equal, a code has no positive price), whichever it is.
C2_ZeroOnFailure ==
  (settled /\ PreconditionFails) => (amountToReceive = ZeroAmount /\ exchangeRate = ZeroRate)

\* C2: the function has run with the amount "2" on BTC and ETH, of which ETH
\* has no positive price, and left "0.00" and 0.
C2_Witness ==
  /\ settled
  /\ amountToSend = <<"2">>
  /\ fromCurrency = "BTC"
  /\ toCurrency = "ETH"
  /\ HasPrice(cryptoPricesInUSD, "BTC")
  /\ ~HasPrice(cryptoPricesInUSD, "ETH")
  /\ amountToReceive = ZeroAmount
  /\ exchangeRate = ZeroRate

\* The decimal digits of the plain decimal s without its point, and the
\* number of them after the point.
PlainDigits(s) == DigitsOf(s, 1, RunEnd(s, 1)) \o DigitsOf(s, RunEnd(s, 1) + 1, Len(s) + 1)

PlainScale(s) == IF RunEnd(s, 1) > Len(s) THEN 0 ELSE Len(s) - RunEnd(s, 1)

\* The integer nearest to d * toPrice * 10^f / (fromPrice * 10^scale), the
\* larger on a tie, in real arithmetic.
ExactScaled(d, scale, toPrice, fromPrice, f) ==
  DivPow10(DivSmall(DivSmall(BigAdd(MulSmall(MulSmall(MulPow10(d, f), toPrice), 2),
                                    MulPow10(Limbs(fromPrice), scale)),
                             fromPrice), 2),
           scale, FALSE).quotient

\* a * toPrice / fromPrice rounded to f decimal places, a the plain decimal s.
ExactFixed(s, toPrice, fromPrice, f) ==
  WithPoint(PadZeros(Strip(ToDecimal(ExactScaled(FromDecimal(PlainDigits(s)), PlainScale(s),
                                                 toPrice, fromPrice, f))), f + 1), f)

\* C3 as stated: once calculateAmountToReceive has run on an amount a in
\* (0, 10^12] and distinct priced currencies x and y, exchangeRate is
\* p[y] / p[x] and amountToReceive is a * p[y] / p[x] to 8 decimal places.
C3_ExactAmount ==
  (settled /\ CurrenciesPriced /\ AmountInRange /\ RegexTest(amountToSend)) =>
    /\ exchangeRate = Ratio(cryptoPricesInUSD[toCurrency], cryptoPricesInUSD[fromCurrency])
    /\ amountToReceive = ExactFixed(amountToSend, cryptoPricesInUSD[toCurrency],
                                    cryptoPricesInUSD[fromCurrency], 8)

\* C4 as stated: with the prices {BTC: 50000, ETH: 2500}, the amount "2",
\* from BTC to ETH, the settled state has the rate 20 and the amount
\* "40.00000000".
C4_BtcToEth ==
  ( /\ FormRendered(Cur)
    /\ cryptoPricesInUSD = [c \in {"BTC", "ETH"} |-> IF c = "BTC" THEN 50000 ELSE 2500]
    /\ amountToSend = <<"2">>
    /\ fromCurrency = "BTC"
    /\ toCurrency = "ETH" ) =>
    /\ RateValue(exchangeRate) = Number(20)
    /\ amountToReceive = <<"4", "0", ".", "0", "0", "0", "0", "0", "0", "0", "0">>

\* C5 as stated: in every settled Ready state the amount's message is the one
\* validateForm gives for the current amountToSend, and the amount "0" is
\* never shown without a message.
C5_AmountMessage ==
  FormRendered(Cur) =>
    /\ amountError = AmountMessage(amountToSend, ParseFloat(amountToSend), locale)
    /\ amountToSend = <<"0">> => amountError # ""

\* The validator accepts the current inputs.
Accepted == ValidateForm(amountToSend, fromCurrency, toCurrency, locale).isValid

\* C6: in every settled Ready state without a pending swap the Swap button is
\* enabled exactly when validateForm accepts the inputs, which is exactly when
\* the amount parses to a number in (0, 10^12] and two different currencies
\* are selected; it is disabled while a swap is pending; and pressing it when
\* enabled sets isSwapping.
C6_SubmitMatchesValidator ==
  /\ [](FormRendered(Cur) =>
          /\ ~isSwapping => (~submitDisabled <=> Accepted)
          /\ isSwapping => submitDisabled
          /\ Accepted <=> ( /\ AmountInRange
                            /\ fromCurrency # NULL
                            /\ toCurrency # NULL
                            /\ fromCurrency # toCurrency ))
  /\ [][HandleSwap => isSwapping']_vars

\* C6: a Ready state that an edit made acceptable, with the button enabled.
C6_Witness ==
  /\ FormRendered(Cur)
  /\ Accepted
  /\ amountToSend = <<"2">>
  /\ ~isSwapping
  /\ ~submitDisabled

\* C7 as stated: in every settled Ready state the message the To Token field
\* shows is the one for the current selection, and when both currencies are
\* selected and equal the From field shows the same message.
C7_ToMessageShown ==
  FormRendered(Cur) =>
    /\ toFieldHelperText = ToMessage(fromCurrency, toCurrency)
    /\ (fromCurrency # NULL /\ fromCurrency = toCurrency) =>
         fromCurrencyError = MsgSameCurrency

\* C8: the view starts in Loading and leaves it in the end; its only changes
\* are from Loading to Ready, by a fetch that succeeded, and from Loading to
\* Error, by one that failed; in Error the form is not rendered,
\* amountToReceive is "0.00", exchangeRate is 0, and no step changes anything.
C8_ViewTransitions ==
  /\ View(Cur) = "Loading"
  /\ <>(View(Cur) # "Loading")
  /\ [](View(Cur) = "Error" =>
          /\ ~FormRendered(Cur)
          /\ amountToReceive = ZeroAmount
          /\ exchangeRate = ZeroRate
          /\ submitDisabled
          /\ timers = 0)
  /\ [][/\ View(Cur) # "Error"
        /\ View(Cur)' # View(Cur) => View(Cur) = "Loading"
        /\ FetchFailure => View(Cur)' = "Error"
        /\ (\E rawData \in Feeds : FetchSuccess(rawData)) => View(Cur)' = "Ready"]_vars

\* C8: the Error view.
C8_Witness == View(Cur) = "Error" /\ fetchError = MsgFetchError

\* C9: at most one timer is pending, and one is exactly while isSwapping
\* holds; a timer starts only in Ready, by a press of the enabled button on
\* inputs the validator accepts, with no swap pending; the timer fires in the
\* end, and then isSwapping is false and the view is Ready.
C9_OneTimer ==
  /\ isSwapping ~> ~isSwapping
  /\ [](/\ timers <= 1
        /\ isSwapping <=> timers = 1
        /\ timers = 1 => View(Cur) = "Ready")
  /\ [][/\ timers' > timers => (FormRendered(Cur) /\ ~isSwapping /\ ~submitDisabled /\ Accepted)
        /\ timers' < timers => (~isSwapping' /\ timers' = 0 /\ View(Cur)' = "Ready")]_vars

\* C9: a swap is pending and the amount has been edited meanwhile.
C9_Witness ==
  /\ timers = 1
  /\ isSwapping
  /\ amountToSend = <<"0">>
  /\ submitDisabled

\* C10: the toggle exchanges fromCurrency and toCurrency, null included, and
\* leaves amountToSend; two toggles restore the selection.
C10_ToggleInvolutive ==
  /\ [][HandleSwapCurrencies =>
          /\ fromCurrency' = toCurrency
          /\ toCurrency' = fromCurrency
          /\ amountToSend' = amountToSend]_vars
  /\ [](/\ SwapCurrencies(SwapCurrencies(Cur)).fromCurrency = fromCurrency
        /\ SwapCurrencies(SwapCurrencies(Cur)).toCurrency = toCurrency)

\* C10: the selection the fetch made (BTC, none), toggled.
C10_Witness ==
  /\ FormRendered(Cur)
  /\ allCryptoCurrencies = <<"BTC">>
  /\ fromCurrency = NULL
  /\ toCurrency = "BTC"
  /\ amountToSend = <<"1", "0", "0">>

====
